---- MODULE Spec2Model ----
(***************************************************************************)
(* Model of scripts/embed_shaders.py: conversion of compiled shader        *)
(* binaries into a C++ header of embedded byte arrays.                     *)
(*                                                                         *)
(* Text is modelled as a sequence of pieces (strings): every literal       *)
(* fragment and every interpolated value of an f-string is one piece, a    *)
(* formatted byte is the piece "0x" followed by one piece per hex digit.   *)
(***************************************************************************)
EXTENDS Integers, Sequences, FiniteSets, TLC

VARIABLES
    \* call of bytes_to_cpp_array(data, var_name) on its own
    data, var_name, result,
    \* command line and file system
    argc, dirStatus, files, outFile, envSteps,
    \* the run of the script
    pc, todo, scanned, shader_files, slot, header_content, shader_data,
    stdout, exitCode, error, outOpens

serializeVars == <<data, var_name, result>>
envVars == <<argc, dirStatus, files, outFile, envSteps>>
runVars == <<pc, todo, scanned, shader_files, slot, header_content,
             shader_data, stdout, exitCode, error, outOpens>>
vars == <<serializeVars, envVars, runVars>>

----------------------------------------------------------------------------
(* Bounds of the model *)

MaxLen == 33
MaxSeed == 7
MaxFileLen == 3
MaxArgs == 3
MaxEnvSteps == 1

(* Constants of the program *)

ChunkSize == 16
HexWidth == 2
ExpectedArgv == 3

----------------------------------------------------------------------------
(* Helpers: Python built-ins used by the script *)

Min(a, b) == IF a < b THEN a ELSE b

\* data[lo:hi] of Python, 0-based and half-open, clipped to the length
Slice(s, lo, hi) == SubSeq(s, lo + 1, Min(hi, Len(s)))

HexDigit(d) ==
    <<"0", "1", "2", "3", "4", "5", "6", "7",
      "8", "9", "a", "b", "c", "d", "e", "f">>[d + 1]

\* variant: the digits come out least significant first
RECURSIVE FormatHex_LowFirst(_)
FormatHex_LowFirst(b) ==
    IF b < 16 THEN <<HexDigit(b)>>
    ELSE <<HexDigit(b % 16)>> \o FormatHex_LowFirst(b \div 16)

\* format(b, 'x'): lowercase hexadecimal digits, most significant first
RECURSIVE FormatHex(_)
FormatHex(b) ==
    IF b < 16 THEN <<HexDigit(b)>>
    ELSE FormatHex(b \div 16) \o <<HexDigit(b % 16)>>

\* zero padding on the left to a minimum width
RECURSIVE ZeroPad(_, _)
ZeroPad(digits, width) ==
    IF Len(digits) >= width THEN digits
    ELSE ZeroPad(<<"0">> \o digits, width)

\* f'0x{b:02x}'
HexByte(b) == <<"0x">> \o ZeroPad(FormatHex(b), HexWidth)

\* sep.join(parts), every part a sequence of pieces
RECURSIVE Join(_, _)
Join(sep, parts) ==
    IF parts = <<>> THEN <<>>
    ELSE IF Len(parts) = 1 THEN parts[1]
    ELSE parts[1] \o <<sep>> \o Join(sep, Tail(parts))

----------------------------------------------------------------------------
(* bytes_to_cpp_array *)

\* variant: the slice is data[i:i+15], one byte short of the stride
RECURSIVE HexLines_ShortChunk(_, _)
HexLines_ShortChunk(d, i) ==
    IF i >= Len(d) THEN <<>>
    ELSE LET chunk == Slice(d, i, i + ChunkSize - 1)
             hex_bytes == Join(", ", [k \in 1..Len(chunk) |-> HexByte(chunk[k])])
         IN  <<"    ">> \o hex_bytes
             \o (IF i + ChunkSize < Len(d) THEN <<",">> ELSE <<>>)
             \o <<"\n">>
             \o HexLines_ShortChunk(d, i + ChunkSize)

\* variant: the line comma is tested with "i + 16 <= len(data)"
RECURSIVE HexLines_TrailingComma(_, _)
HexLines_TrailingComma(d, i) ==
    IF i >= Len(d) THEN <<>>
    ELSE LET chunk == Slice(d, i, i + ChunkSize)
             hex_bytes == Join(", ", [k \in 1..Len(chunk) |-> HexByte(chunk[k])])
         IN  <<"    ">> \o hex_bytes
             \o (IF i + ChunkSize <= Len(d) THEN <<",">> ELSE <<>>)
             \o <<"\n">>
             \o HexLines_TrailingComma(d, i + ChunkSize)

\* the body of the loop "for i in range(0, len(data), 16)", from index i on
RECURSIVE HexLines(_, _)
HexLines(d, i) ==
    IF i >= Len(d) THEN <<>>
    ELSE LET chunk == Slice(d, i, i + ChunkSize)
             hex_bytes == Join(", ", [k \in 1..Len(chunk) |-> HexByte(chunk[k])])
         IN  <<"    ">> \o hex_bytes
             \o (IF i + ChunkSize < Len(d) THEN <<",">> ELSE <<>>)
             \o <<"\n">>
             \o HexLines(d, i + ChunkSize)

bytes_to_cpp_array(d, name) ==
    <<"static const uint8_t ", name, "[] = {", "\n">>
    \o HexLines(d, 0)
    \o <<"};", "\n">>
    \o <<"static const size_t ", name \o "_size", " = ",
         "sizeof(", name, ")", ";", "\n", "\n">>

----------------------------------------------------------------------------
(* Reading the generated text back *)

Indices(t) == [p \in 1..Len(t) |-> p]

\* positions of the pieces equal to x, in order
Positions(t, x) == SelectSeq(Indices(t), LAMBDA p : t[p] = x)

\* position of the "[] = {" that opens the declaration of array name, 0 if none
ArrayOpen(t, name) ==
    LET c == {p \in 3..Len(t) : /\ t[p] = "[] = {"
                                /\ t[p - 1] = name
                                /\ t[p - 2] = "static const uint8_t "}
    IN  IF c = {} THEN 0 ELSE CHOOSE p \in c : \A q \in c : p <= q

\* the pieces between the opening brace of array name and its closing "};"
ArrayBody(t, name) ==
    LET o == ArrayOpen(t, name)
        e == CHOOSE p \in (o + 1)..Len(t) :
                 t[p] = "};" /\ \A q \in (o + 1)..(p - 1) : t[q] # "};"
    IN  SubSeq(t, o + 1, e - 1)

HexValue(h) ==
    CHOOSE d \in 0..15 : HexDigit(d) = h

IsHexDigit(h) == \E d \in 0..15 : HexDigit(d) = h

\* the values of the 0xHH tokens of a text, in order of appearance
Decode(t) ==
    LET at == Positions(t, "0x")
    IN  [k \in 1..Len(at) |->
            16 * HexValue(t[at[k] + 1]) + HexValue(t[at[k] + 2])]

\* number of elements of the initializer list of array name
ElementCount(t, name) == Len(Positions(ArrayBody(t, name), "0x"))

\* the expression that initialises the size constant of array name
SizeExpr(t, name) ==
    LET c == {p \in 3..Len(t) : /\ t[p] = " = "
                                /\ t[p - 1] = name \o "_size"
                                /\ t[p - 2] = "static const size_t "}
        o == CHOOSE p \in c : TRUE
        e == CHOOSE p \in (o + 1)..Len(t) :
                 t[p] = ";" /\ \A q \in (o + 1)..(p - 1) : t[q] # ";"
    IN  SubSeq(t, o + 1, e - 1)

\* value of the size constant of array name: sizeof of an array of uint8_t is
\* its number of elements, a decimal literal is its value
SizeValue(t, name) ==
    LET e == SizeExpr(t, name)
    IN  IF Len(e) = 3 /\ e[1] = "sizeof(" /\ e[3] = ")"
        THEN ElementCount(t, e[2])
        ELSE IF e = <<"1">> THEN 1 ELSE -1

\* the lines of a text: the runs of pieces between "\n" pieces
TextLines(t) ==
    LET nl == Positions(t, "\n")
        start(k) == IF k = 1 THEN 1 ELSE nl[k - 1] + 1
        stop(k) == IF k = Len(nl) + 1 THEN Len(t) ELSE nl[k] - 1
    IN  [k \in 1..(Len(nl) + 1) |-> SubSeq(t, start(k), stop(k))]

\* the lines of the body of array name that hold entries
BodyLines(t, name) ==
    SelectSeq(TextLines(ArrayBody(t, name)), LAMBDA l : l # <<>>)

----------------------------------------------------------------------------
(* File names: pathlib and str operations of the scan *)

\* the entries the input directory may hold
FileNames ==
    {"vs_lines_glsl.bin", "vs_lines_spirv.bin", "fs_lines_glsl.bin",
     "vs_linesx_metal.bin", "shader.bin", "vs_lines.txt"}

\* the characters of a file name
NameChars(f) ==
    CASE f = "vs_lines_glsl.bin" ->
           <<"v", "s", "_", "l", "i", "n", "e", "s", "_", "g", "l", "s", "l", ".", "b", "i", "n">>
      [] f = "vs_lines_spirv.bin" ->
           <<"v", "s", "_", "l", "i", "n", "e", "s", "_", "s", "p", "i", "r", "v", ".", "b", "i", "n">>
      [] f = "fs_lines_glsl.bin" ->
           <<"f", "s", "_", "l", "i", "n", "e", "s", "_", "g", "l", "s", "l", ".", "b", "i", "n">>
      [] f = "vs_linesx_metal.bin" ->
           <<"v", "s", "_", "l", "i", "n", "e", "s", "x", "_", "m", "e", "t", "a", "l", ".", "b", "i", "n">>
      [] f = "shader.bin" ->
           <<"s", "h", "a", "d", "e", "r", ".", "b", "i", "n">>
      [] f = "vs_lines.txt" ->
           <<"v", "s", "_", "l", "i", "n", "e", "s", ".", "t", "x", "t">>

\* ''.join(chars)
RECURSIVE Concat(_)
Concat(chars) ==
    IF chars = <<>> THEN "" ELSE Head(chars) \o Concat(Tail(chars))

\* fnmatch of the name against "*.bin"
GlobMatch(f) ==
    LET c == NameChars(f)
        n == Len(c)
    IN  n >= 4 /\ SubSeq(c, n - 3, n) = <<".", "b", "i", "n">>

\* Path.stem: the name without its last suffix
Stem(f) ==
    LET c == NameChars(f)
        dots == {p \in 2..Len(c) : c[p] = "."}
    IN  IF dots = {} \/ c[Len(c)] = "." THEN c
        ELSE SubSeq(c, 1, (CHOOSE p \in dots : \A q \in dots : q <= p) - 1)

\* str.split(sep): the tokens between the separators, empty ones included
Split(c, sep) ==
    LET at == Positions(c, sep)
        start(k) == IF k = 1 THEN 1 ELSE at[k - 1] + 1
        stop(k) == IF k = Len(at) + 1 THEN Len(c) ELSE at[k] - 1
    IN  [k \in 1..(Len(at) + 1) |-> Concat(SubSeq(c, start(k), stop(k)))]

\* name.split('_')[0] + '_' + name.split('_')[1]; needs two tokens
base_name(f) ==
    LET tokens == Split(Stem(f), "_")
    IN  tokens[1] \o "_" \o tokens[2]

\* name.split('_')[1] raises IndexError
SplitFails(f) == Len(Split(Stem(f), "_")) < 2

----------------------------------------------------------------------------
(* embed_shaders: fixed parts *)

None == "<None>"

\* keys of the dict shader_files, in insertion order
ShaderNames == <<"vs_lines", "fs_lines">>

Slots == {ShaderNames[k] : k \in 1..Len(ShaderNames)}

Preamble ==
    <<"#pragma once", "\n", "\n",
      "// Auto-generated embedded shaders for high-performance GPU rendering", "\n",
      "// Generated from compiled bgfx shader binaries", "\n", "\n",
      "#include <cstdint>", "\n",
      "#include <cstddef>", "\n", "\n",
      "namespace oscil::shaders {", "\n", "\n">>

Closing == <<"} // namespace oscil::shaders", "\n">>

VarName(shader_name) == "embedded_" \o shader_name

\* the branch that embeds the bytes read from the file
EmbeddedEntry(shader_name, d) ==
    <<"// ", shader_name, " shader (", ToString(Len(d)), " bytes)", "\n">>
    \o bytes_to_cpp_array(d, VarName(shader_name))

\* the branch "Create empty placeholder"
PlaceholderEntry(shader_name) ==
    <<"// ", shader_name, " shader (placeholder - not compiled)", "\n">>
    \o <<"static const uint8_t ", VarName(shader_name), "[] = {",
         "0x", "0", "0", "};", "\n">>
    \o <<"static const size_t ", VarName(shader_name) \o "_size", " = ",
         "1", ";", "\n", "\n">>

Usage == "Usage: python3 embed_shaders.py <input_dir> <output_header>"

Confirmation == "Generated embedded shader header: <output_header>"

\* contents of the output path before the run: no file, or an earlier header
Absent == <<"<absent>">>

OldHeader == <<"<previous header>">>

\* byte sequences: n bytes counted up from seed, modulo 256
DataOf(n, seed) == [k \in 1..n |-> (seed + k - 1) % 256]

\* the contents a shader binary may have when it is read
FileData ==
    {DataOf(n, 1) : n \in 0..MaxFileLen} \cup {DataOf(ChunkSize + 1, 250)}

----------------------------------------------------------------------------
(* Initial states *)

InitSerializeIdle ==
    /\ data = <<>>
    /\ var_name = ""
    /\ result = <<>>

InitRun ==
    /\ pc = "main"
    /\ todo = {}
    /\ scanned = <<>>
    /\ shader_files = [s \in Slots |-> None]
    /\ slot = 1
    /\ header_content = <<>>
    /\ shader_data = [s \in Slots |-> <<>>]
    /\ stdout = <<>>
    /\ exitCode = -1
    /\ error = "none"
    /\ outOpens = 0

InitEnv ==
    /\ argc \in 0..MaxArgs
    /\ dirStatus \in {"ok", "missing", "unreadable"}
    /\ files \in SUBSET FileNames
    /\ dirStatus # "ok" => files = {}
    /\ outFile \in {Absent, OldHeader}
    /\ envSteps = 0

Init == InitSerializeIdle /\ InitEnv /\ InitRun

----------------------------------------------------------------------------
(* The run of the script *)

\* an uncaught exception: traceback, exit status 1
Raise(e) ==
    /\ error' = e
    /\ exitCode' = 1
    /\ pc' = "exited"

\* variant: the script name is not counted, "len(sys.argv) - 1 != 3"
Main_OffByOne ==
    /\ pc = "main"
    /\ IF argc # ExpectedArgv
       THEN /\ stdout' = Append(stdout, Usage)
            /\ exitCode' = 1
            /\ pc' = "exited"
       ELSE /\ pc' = "glob"
            /\ UNCHANGED <<stdout, exitCode>>
    /\ UNCHANGED <<todo, scanned, shader_files, slot, header_content,
                   shader_data, error, outOpens>>
    /\ UNCHANGED <<serializeVars, envVars>>

\* __main__: the argument check; sys.argv holds the script name and the arguments
Main ==
    /\ pc = "main"
    /\ IF argc + 1 # ExpectedArgv
       THEN /\ stdout' = Append(stdout, Usage)
            /\ exitCode' = 1
            /\ pc' = "exited"
       ELSE /\ pc' = "glob"
            /\ UNCHANGED <<stdout, exitCode>>
    /\ UNCHANGED <<todo, scanned, shader_files, slot, header_content,
                   shader_data, error, outOpens>>
    /\ UNCHANGED <<serializeVars, envVars>>

\* input_path.glob("*.bin"): the directory is listed once; a path that is not
\* a directory and a directory that may not be listed both yield nothing
Glob ==
    /\ pc = "glob"
    /\ todo' = IF dirStatus = "ok" THEN {f \in files : GlobMatch(f)} ELSE {}
    /\ pc' = "scan"
    /\ UNCHANGED <<scanned, shader_files, slot, header_content, shader_data,
                   stdout, exitCode, error, outOpens>>
    /\ UNCHANGED <<serializeVars, envVars>>

\* variant: a slot that already has a file keeps it
ScanFile_KeepFirst(f) ==
    /\ pc = "scan"
    /\ f \in todo
    /\ todo' = todo \ {f}
    /\ scanned' = Append(scanned, f)
    /\ IF SplitFails(f)
       THEN /\ Raise("IndexError")
            /\ UNCHANGED shader_files
       ELSE /\ shader_files' =
                  IF /\ base_name(f) \in DOMAIN shader_files
                     /\ shader_files[base_name(f)] = None
                  THEN [shader_files EXCEPT ![base_name(f)] = f]
                  ELSE shader_files
            /\ UNCHANGED <<pc, exitCode, error>>
    /\ UNCHANGED <<slot, header_content, shader_data, stdout, outOpens>>
    /\ UNCHANGED <<serializeVars, envVars>>

\* one iteration of "for shader_file in ..."; the listing order is arbitrary
ScanFile(f) ==
    /\ pc = "scan"
    /\ f \in todo
    /\ todo' = todo \ {f}
    /\ scanned' = Append(scanned, f)
    /\ IF SplitFails(f)
       THEN /\ Raise("IndexError")
            /\ UNCHANGED shader_files
       ELSE /\ shader_files' =
                  IF base_name(f) \in DOMAIN shader_files
                  THEN [shader_files EXCEPT ![base_name(f)] = f]
                  ELSE shader_files
            /\ UNCHANGED <<pc, exitCode, error>>
    /\ UNCHANGED <<slot, header_content, shader_data, stdout, outOpens>>
    /\ UNCHANGED <<serializeVars, envVars>>

\* variant: the output file is opened before the slots are read
ScanDone_OpensOutput ==
    /\ pc = "scan"
    /\ todo = {}
    /\ header_content' = Preamble
    /\ slot' = 1
    /\ pc' = "embed"
    /\ outFile' = <<>>
    /\ outOpens' = outOpens + 1
    /\ UNCHANGED <<todo, scanned, shader_files, shader_data, stdout,
                   exitCode, error>>
    /\ UNCHANGED <<serializeVars, argc, dirStatus, files, envSteps>>

\* the listing is exhausted: header_content receives the preamble
ScanDone ==
    /\ pc = "scan"
    /\ todo = {}
    /\ header_content' = Preamble
    /\ slot' = 1
    /\ pc' = "embed"
    /\ UNCHANGED <<todo, scanned, shader_files, shader_data, stdout,
                   exitCode, error, outOpens>>
    /\ UNCHANGED <<serializeVars, envVars>>

\* variant: a slot without a file gets no entry at all
EmbedCheck_NoPlaceholder ==
    /\ pc = "embed"
    /\ slot <= Len(ShaderNames)
    /\ LET shader_name == ShaderNames[slot]
           shader_path == shader_files[shader_name]
       IN  IF shader_path # None /\ shader_path \in files
           THEN /\ pc' = "open"
                /\ UNCHANGED <<slot, header_content>>
           ELSE /\ slot' = slot + 1
                /\ UNCHANGED <<pc, header_content>>
    /\ UNCHANGED <<todo, scanned, shader_files, shader_data, stdout,
                   exitCode, error, outOpens>>
    /\ UNCHANGED <<serializeVars, envVars>>

\* "if shader_path and shader_path.exists()" for the next slot; the else
\* branch appends the placeholder
EmbedCheck ==
    /\ pc = "embed"
    /\ slot <= Len(ShaderNames)
    /\ LET shader_name == ShaderNames[slot]
           shader_path == shader_files[shader_name]
       IN  IF shader_path # None /\ shader_path \in files
           THEN /\ pc' = "open"
                /\ UNCHANGED <<slot, header_content>>
           ELSE /\ header_content' =
                      header_content \o PlaceholderEntry(shader_name)
                /\ slot' = slot + 1
                /\ UNCHANGED pc
    /\ UNCHANGED <<todo, scanned, shader_files, shader_data, stdout,
                   exitCode, error, outOpens>>
    /\ UNCHANGED <<serializeVars, envVars>>

\* open(shader_path, 'rb') and f.read(), then the entry is appended; the
\* open fails on a file that is gone or that may not be read
EmbedRead ==
    /\ pc = "open"
    /\ \E readable \in BOOLEAN :
       LET shader_name == ShaderNames[slot]
           shader_path == shader_files[shader_name]
       IN  IF shader_path \notin files \/ ~readable
           THEN /\ Raise("IOError")
                /\ UNCHANGED <<slot, header_content, shader_data>>
           ELSE \E d \in FileData :
                    /\ shader_data' = [shader_data EXCEPT ![shader_name] = <<d>>]
                    /\ header_content' =
                           header_content \o EmbeddedEntry(shader_name, d)
                    /\ slot' = slot + 1
                    /\ pc' = "embed"
                    /\ UNCHANGED <<exitCode, error>>
    /\ UNCHANGED <<todo, scanned, shader_files, stdout, outOpens>>
    /\ UNCHANGED <<serializeVars, envVars>>

\* after the loop: the closing line, then open(output_header, 'w'), which
\* creates or truncates the file, or fails on a path that may not be written
OpenOutput ==
    /\ pc = "embed"
    /\ slot > Len(ShaderNames)
    /\ header_content' = header_content \o Closing
    /\ \E writable \in BOOLEAN :
       IF writable
       THEN /\ outFile' = <<>>
            /\ outOpens' = outOpens + 1
            /\ pc' = "write"
            /\ UNCHANGED <<exitCode, error>>
       ELSE /\ Raise("IOError")
            /\ UNCHANGED <<outFile, outOpens>>
    /\ UNCHANGED <<todo, scanned, shader_files, slot, shader_data, stdout>>
    /\ UNCHANGED <<serializeVars, argc, dirStatus, files, envSteps>>

\* f.write(header_content) and the close at the end of the with block
WriteOutput ==
    /\ pc = "write"
    /\ outFile' = header_content
    /\ pc' = "print"
    /\ UNCHANGED <<todo, scanned, shader_files, slot, header_content,
                   shader_data, stdout, exitCode, error, outOpens>>
    /\ UNCHANGED <<serializeVars, argc, dirStatus, files, envSteps>>

\* print(...) and the normal end of the script
PrintConfirmation ==
    /\ pc = "print"
    /\ stdout' = Append(stdout, Confirmation)
    /\ exitCode' = 0
    /\ pc' = "exited"
    /\ UNCHANGED <<todo, scanned, shader_files, slot, header_content,
                   shader_data, error, outOpens>>
    /\ UNCHANGED <<serializeVars, envVars>>

----------------------------------------------------------------------------
(* Another process removing a file of the input directory during the run *)

Running == pc \notin {"main", "exited"}

EnvDelete(f) ==
    /\ Running
    /\ envSteps < MaxEnvSteps
    /\ f \in files
    /\ files' = files \ {f}
    /\ envSteps' = envSteps + 1
    /\ UNCHANGED <<argc, dirStatus, outFile>>
    /\ UNCHANGED <<serializeVars, runVars>>

Next ==
    \/ Main
    \/ Glob
    \/ \E f \in FileNames : ScanFile(f)
    \/ ScanDone
    \/ EmbedCheck
    \/ EmbedRead
    \/ OpenOutput
    \/ WriteOutput
    \/ PrintConfirmation
    \/ \E f \in FileNames : EnvDelete(f)

Spec == Init /\ [][Next]_vars

\* the same run on a directory that no other process touches
NextSnapshot ==
    \/ Main
    \/ Glob
    \/ \E f \in FileNames : ScanFile(f)
    \/ ScanDone
    \/ EmbedCheck
    \/ EmbedRead
    \/ OpenOutput
    \/ WriteOutput
    \/ PrintConfirmation

SpecSnapshot == Init /\ [][NextSnapshot]_vars

----------------------------------------------------------------------------
(* bytes_to_cpp_array called on its own *)

InitSerialize ==
    /\ \E n \in 0..MaxLen, k \in 0..MaxSeed : data = DataOf(n, 32 * k)
    /\ var_name \in {"embedded_vs_lines", "shader"}
    /\ result = <<>>
    /\ argc = 0
    /\ dirStatus = "ok"
    /\ files = {}
    /\ outFile = Absent
    /\ envSteps = 0
    /\ InitRun

Serialize ==
    /\ result = <<>>
    /\ result' = bytes_to_cpp_array(data, var_name)
    /\ UNCHANGED <<data, var_name, envVars, runVars>>

NextSerialize == Serialize

SpecSerialize == InitSerialize /\ [][NextSerialize]_vars

TypeOK ==
    /\ pc \in {"main", "glob", "scan", "embed", "open", "write", "print", "exited"}
    /\ exitCode \in {-1, 0, 1}
    /\ files \subseteq FileNames
    /\ todo \subseteq FileNames
    /\ \A s \in Slots : shader_files[s] \in FileNames \cup {None}
    /\ slot \in 1..(Len(ShaderNames) + 1)
    /\ \A f \in FileNames : Concat(NameChars(f)) = f

----------------------------------------------------------------------------
(* Vocabulary of the properties *)

\* every 0xHH token of a text has exactly two lowercase hex digits
TokensWellFormed(t) ==
    \A p \in 1..Len(t) :
        t[p] = "0x" =>
            /\ p + 2 <= Len(t)
            /\ IsHexDigit(t[p + 1])
            /\ IsHexDigit(t[p + 2])
            /\ p + 3 <= Len(t) => ~IsHexDigit(t[p + 3])

\* number of entries of a line
EntryCount(l) == Len(Positions(l, "0x"))

\* the names declared after a given declaration keyword, in order
Declared(t, keyword) ==
    LET at == Positions(t, keyword)
    IN  [k \in 1..Len(at) |-> t[at[k] + 1]]

\* the slot key a file name stands for, read off the name by hand
ExpectedKey(f) ==
    CASE f = "vs_lines_glsl.bin" -> "vs_lines"
      [] f = "vs_lines_spirv.bin" -> "vs_lines"
      [] f = "fs_lines_glsl.bin" -> "fs_lines"
      [] f = "vs_linesx_metal.bin" -> "vs_linesx"
      [] f = "shader.bin" -> "<fewer than two tokens>"
      [] f = "vs_lines.txt" -> "<not a .bin file>"

Malformed(f) == f = "shader.bin"

\* the last file of a sequence whose key is the slot s, None if there is none
LastMatch(seq, s) ==
    LET m == {k \in 1..Len(seq) : ExpectedKey(seq[k]) = s}
    IN  IF m = {} THEN None ELSE seq[CHOOSE k \in m : \A j \in m : j <= k]

Untouched(f) == f \in {Absent, OldHeader}

Succeeded == pc = "exited" /\ exitCode = 0

----------------------------------------------------------------------------
(* Properties of bytes_to_cpp_array *)

\* C1: the emitted array holds exactly len(data) 0xHH elements, and the size
\* constant is sizeof of that same array, which evaluates to len(data)
C1_ElementCount ==
    result # <<>> =>
        /\ ElementCount(result, var_name) = Len(data)
        /\ SizeExpr(result, var_name) = <<"sizeof(", var_name, ")">>
        /\ SizeValue(result, var_name) = Len(data)

C1_Witness == result # <<>> /\ Len(data) = ChunkSize + 1

\* C2: every line of the hex body holds at most 16 entries and every line but
\* the last exactly 16; every line but the last ends with a comma; the final
\* entry is the only one not followed by a comma; empty data gives no entry
\* and no comma
C2_LinesAndCommas ==
    result # <<>> =>
        LET body == ArrayBody(result, var_name)
            lines == BodyLines(result, var_name)
            at == Positions(body, "0x")
        IN  /\ \A k \in 1..Len(lines) :
                  /\ EntryCount(lines[k]) <= 16
                  /\ EntryCount(lines[k]) >= 1
                  /\ k < Len(lines) => EntryCount(lines[k]) = 16
                  /\ (k < Len(lines)) <=> (lines[k][Len(lines[k])] = ",")
            /\ \A k \in 1..Len(at) :
                  (k < Len(at)) <=> (body[at[k] + 3] \in {", ", ","})
            /\ data = <<>> =>
                  /\ Len(at) = 0
                  /\ \A p \in 1..Len(body) : body[p] \notin {", ", ","}

C2_Witness == result # <<>> /\ Len(data) = 2 * ChunkSize

----------------------------------------------------------------------------
(* Properties of the run *)

\* C3: decoding the 0xHH tokens of the array generated for a slot, in order,
\* gives back exactly the bytes read from the file of that slot, every token
\* having two lowercase hex digits
C3_RoundTrip ==
    \A s \in Slots :
        shader_data[s] # <<>> =>
            /\ TokensWellFormed(ArrayBody(header_content, VarName(s)))
            /\ Decode(ArrayBody(header_content, VarName(s))) = shader_data[s][1]
            /\ Succeeded =>
                  Decode(ArrayBody(outFile, VarName(s))) = shader_data[s][1]

C3_Witness ==
    /\ Succeeded
    /\ shader_data["vs_lines"] = <<DataOf(ChunkSize + 1, 250)>>
    /\ shader_data["fs_lines"] = <<DataOf(1, 1)>>

\* C4: while only well-formed names have been scanned, each of the two slots
\* maps to the last scanned file whose key equals the slot identifier, or to
\* nothing, and there is no other slot
C4_LastMatchWins ==
    (\A k \in 1..Len(scanned) : ~Malformed(scanned[k])) =>
        /\ DOMAIN shader_files = {"vs_lines", "fs_lines"}
        /\ \A s \in Slots : shader_files[s] = LastMatch(scanned, s)

C4_Witness ==
    /\ Len(scanned) = 4
    /\ scanned[1] = "vs_lines_spirv.bin"
    /\ scanned[2] = "fs_lines_glsl.bin"
    /\ scanned[3] = "vs_lines_glsl.bin"
    /\ scanned[4] = "vs_linesx_metal.bin"
    /\ shader_files["vs_lines"] = "vs_lines_glsl.bin"

C6_InputFormatError ==
    (pc = "exited" /\ \E k \in 1..Len(scanned) : Malformed(scanned[k])) =>
        /\ error = "InputFormatError"
        /\ Untouched(outFile)

\* C7: a run in which a file selected for a slot was not read (deleted or
\* unreadable before the read) never completes successfully
C7_SelectedFileGone ==
    \A s \in Slots :
        (shader_files[s] # None /\ shader_data[s] = <<>>) => ~Succeeded

\* C8: with a missing or unreadable input directory the run fails with an
\* IOError, exits non-zero and writes no header
C8_MissingDirectory ==
    (pc = "exited" /\ argc = 2 /\ dirStatus # "ok") =>
        /\ error = "IOError"
        /\ exitCode # 0
        /\ Untouched(outFile)

\* C9: with an argument count other than two the run prints the usage
\* message, exits with 1 and neither scans nor touches the output; with two
\* arguments a run that ends without error prints the confirmation and
\* exits with 0
C9_ArgumentCount ==
    /\ argc # 2 =>
          /\ pc \in {"main", "exited"}
          /\ scanned = <<>> /\ todo = {}
          /\ outOpens = 0 /\ Untouched(outFile)
          /\ pc = "exited" => stdout = <<Usage>> /\ exitCode = 1
    /\ (argc = 2 /\ pc = "exited" /\ error = "none") =>
          stdout = <<Confirmation>> /\ exitCode = 0

C9_Witness == argc = 3 /\ pc = "exited"


\* C10: the output path is opened at most once, and only after the scan and
\* the reads of all slots are over; a run that fails leaves the output as it
\* was; the confirmation is printed only after the write is complete
C10_WriteLast ==
    /\ outOpens <= 1
    /\ outOpens = 0 => Untouched(outFile)
    /\ outOpens = 1 =>
          /\ pc \in {"write", "print", "exited"}
          /\ todo = {}
          /\ slot > Len(ShaderNames)
    /\ error # "none" => outOpens = 0
    /\ stdout # <<>> /\ argc = 2 =>
          /\ stdout = <<Confirmation>>
          /\ outOpens = 1
          /\ outFile = header_content

C10_Witness ==
    /\ pc = "exited"
    /\ error = "IOError"
    /\ shader_files["vs_lines"] # None
    /\ shader_data["fs_lines"] # <<>>
    /\ outFile = OldHeader

====
